---------------------------- MODULE Spec2Model ----------------------------
(***************************************************************************)
(* A model of load.go of tiktoken-go: the Source Reader (readFile), the    *)
(* Cache Store (readFileCached), the Rank-Table Parser and the two load    *)
(* entry points (loadTiktokenBpe, LoadTiktokenBpeFromFS).                  *)
(*                                                                         *)
(* Byte strings are sequences of one-character strings.  A directory is a  *)
(* string, a file name a tuple, a path a pair <<directory, file name>>.    *)
(***************************************************************************)
EXTENDS Integers, Sequences, FiniteSets, TLC

(***************************************************************************)
(* Bounds of the model.                                                    *)
(***************************************************************************)
\* Calls started in one behaviour.
MaxCalls == 2
\* Changes of the environment (os.Setenv by the embedding program).
MaxSetenv == 1
\* Lines of a rank-table text handed to the parser.
MaxLines == 2

(***************************************************************************)
(* Text helpers: strings.HasPrefix, strings.Split for a one-byte separator.*)
(***************************************************************************)
HasPrefix(s, prefix) ==
    /\ Len(s) >= Len(prefix)
    /\ SubSeq(s, 1, Len(prefix)) = prefix

\* Index of the first occurrence of sep in s, 0 when there is none.
IndexOf(s, sep) ==
    IF \E i \in 1..Len(s) : s[i] = sep
    THEN CHOOSE i \in 1..Len(s) : s[i] = sep /\ \A j \in 1..(i - 1) : s[j] # sep
    ELSE 0

RECURSIVE Split(_, _)
Split(s, sep) ==
    LET i == IndexOf(s, sep)
    IN  IF i = 0 THEN <<s>>
        ELSE <<SubSeq(s, 1, i - 1)>> \o Split(SubSeq(s, i + 1, Len(s)), sep)

RECURSIVE Join(_, _)
Join(parts, sep) ==
    IF Len(parts) = 0 THEN <<>>
    ELSE IF Len(parts) = 1 THEN parts[1]
    ELSE parts[1] \o <<sep>> \o Join(Tail(parts), sep)

(***************************************************************************)
(* base64.StdEncoding.DecodeString: the standard alphabet with '='         *)
(* padding; '\r' and '\n' are skipped; a quantum is four characters, and   *)
(* padding is legal only as the last one or two characters of the input.   *)
(* The result is [ok |-> TRUE, bytes |-> <<...>>] or [ok |-> FALSE].       *)
(***************************************************************************)
B64Alphabet ==
    << "A","B","C","D","E","F","G","H","I","J","K","L","M","N","O","P",
       "Q","R","S","T","U","V","W","X","Y","Z","a","b","c","d","e","f",
       "g","h","i","j","k","l","m","n","o","p","q","r","s","t","u","v",
       "w","x","y","z","0","1","2","3","4","5","6","7","8","9","+","/" >>

IsB64(c) == \E i \in 1..64 : B64Alphabet[i] = c

B64Val(c) == (CHOOSE i \in 1..64 : B64Alphabet[i] = c) - 1

StripNewlines(s) == SelectSeq(s, LAMBDA c : c # "\r" /\ c # "\n")

\* One quantum of four characters; last says whether it ends the input.
DecodeQuantum(q, last) ==
    IF ~(IsB64(q[1]) /\ IsB64(q[2])) THEN [ok |-> FALSE]
    ELSE LET v1 == B64Val(q[1])
             v2 == B64Val(q[2])
             b1 == v1 * 4 + (v2 \div 16)
         IN  IF IsB64(q[3]) /\ IsB64(q[4])
             THEN LET v3 == B64Val(q[3])
                      v4 == B64Val(q[4])
                  IN  [ok |-> TRUE,
                       bytes |-> << b1, (v2 % 16) * 16 + (v3 \div 4),
                                    (v3 % 4) * 64 + v4 >>]
             ELSE IF last /\ IsB64(q[3]) /\ q[4] = "="
             THEN [ok |-> TRUE,
                   bytes |-> << b1, (v2 % 16) * 16 + (B64Val(q[3]) \div 4) >>]
             ELSE IF last /\ q[3] = "=" /\ q[4] = "="
             THEN [ok |-> TRUE, bytes |-> << b1 >>]
             ELSE [ok |-> FALSE]

RECURSIVE DecodeQuanta(_)
DecodeQuanta(t) ==
    IF Len(t) = 0 THEN [ok |-> TRUE, bytes |-> <<>>]
    ELSE IF Len(t) < 4 THEN [ok |-> FALSE]
    ELSE LET head == DecodeQuantum(SubSeq(t, 1, 4), Len(t) = 4)
         IN  IF ~head.ok THEN head
             ELSE LET rest == DecodeQuanta(SubSeq(t, 5, Len(t)))
                  IN  IF ~rest.ok THEN rest
                      ELSE [ok |-> TRUE, bytes |-> head.bytes \o rest.bytes]

DecodeString(s) == DecodeQuanta(StripNewlines(s))

(***************************************************************************)
(* strconv.Atoi: an optional sign, then one or more decimal digits.  The   *)
(* texts of this model hold fewer than ten digits, where Atoi takes its    *)
(* fast path (fewer than 19 digits) and cannot be out of range.            *)
(***************************************************************************)
Digits == << "0","1","2","3","4","5","6","7","8","9" >>

IsDigit(c) == \E i \in 1..10 : Digits[i] = c

DigitVal(c) == (CHOOSE i \in 1..10 : Digits[i] = c) - 1

RECURSIVE DigitsValue(_)
DigitsValue(ds) ==
    IF Len(ds) = 0 THEN 0
    ELSE DigitsValue(SubSeq(ds, 1, Len(ds) - 1)) * 10 + DigitVal(ds[Len(ds)])

Atoi(s) ==
    LET signed == Len(s) > 0 /\ s[1] \in {"+", "-"}
        ds     == IF signed THEN Tail(s) ELSE s
    IN  IF Len(ds) = 0 \/ \E i \in 1..Len(ds) : ~IsDigit(ds[i])
        THEN [ok |-> FALSE]
        ELSE LET mag == DigitsValue(ds)
             IN  [ok |-> TRUE,
                  n  |-> IF signed /\ s[1] = "-" THEN 0 - mag ELSE mag]

(***************************************************************************)
(* The Rank-Table Parser.  A load returns                                  *)
(*   [kind |-> "ok",  bpeRanks |-> a function from token bytes to rank],   *)
(*   [kind |-> "err", err |-> the error], or                               *)
(*   [kind |-> "panic"]  when the goroutine panics (index out of range).   *)
(***************************************************************************)
EmptyRanks == << >>

Ok(bpeRanks) == [kind |-> "ok", bpeRanks |-> bpeRanks]
Err(e)       == [kind |-> "err", err |-> e]
Panic        == [kind |-> "panic"]

\* The loop with break in place of continue: an empty line ends it.
RECURSIVE bpeLoopBreak(_, _, _)
bpeLoopBreak(lines, i, bpeRanks) ==
    IF i > Len(lines) THEN Ok(bpeRanks)
    ELSE LET line == lines[i]
         IN  IF line = <<>> THEN Ok(bpeRanks)
             ELSE LET parts == Split(line, " ")
                      token == DecodeString(parts[1])
                  IN  IF ~token.ok THEN Err("base64.CorruptInputError")
                      ELSE IF Len(parts) < 2 THEN Panic
                      ELSE LET rank == Atoi(parts[2])
                           IN  IF ~rank.ok THEN Err("strconv.NumError")
                               ELSE bpeLoopBreak(lines, i + 1,
                                        (token.bytes :> rank.n) @@ bpeRanks)

\* The loop storing a rank only for a token not yet in the table.
RECURSIVE bpeLoopFirstWins(_, _, _)
bpeLoopFirstWins(lines, i, bpeRanks) ==
    IF i > Len(lines) THEN Ok(bpeRanks)
    ELSE LET line == lines[i]
         IN  IF line = <<>> THEN bpeLoopFirstWins(lines, i + 1, bpeRanks)
             ELSE LET parts == Split(line, " ")
                      token == DecodeString(parts[1])
                  IN  IF ~token.ok THEN Err("base64.CorruptInputError")
                      ELSE IF Len(parts) < 2 THEN Panic
                      ELSE LET rank == Atoi(parts[2])
                           IN  IF ~rank.ok THEN Err("strconv.NumError")
                               ELSE bpeLoopFirstWins(lines, i + 1,
                                        bpeRanks @@ (token.bytes :> rank.n))

\* The loop of loadTiktokenBpe over the lines from index i on.
RECURSIVE bpeLoop(_, _, _)
bpeLoop(lines, i, bpeRanks) ==
    IF i > Len(lines) THEN Ok(bpeRanks)
    ELSE LET line == lines[i]
         IN  IF line = <<>> THEN bpeLoop(lines, i + 1, bpeRanks)
             ELSE LET parts == Split(line, " ")
                      token == DecodeString(parts[1])
                  IN  IF ~token.ok THEN Err("base64.CorruptInputError")
                      ELSE IF Len(parts) < 2 THEN Panic
                      ELSE LET rank == Atoi(parts[2])
                           IN  IF ~rank.ok THEN Err("strconv.NumError")
                               ELSE bpeLoop(lines, i + 1,
                                        (token.bytes :> rank.n) @@ bpeRanks)

\* loadTiktokenBpe once readFileCached has returned contents without error.
parseBpe(contents) == bpeLoop(Split(contents, "\n"), 1, EmptyRanks)

\* The loop of LoadTiktokenBpeFromFS over the lines from index i on.
RECURSIVE bpeLoopFS(_, _, _)
bpeLoopFS(lines, i, bpeRanks) ==
    IF i > Len(lines) THEN Ok(bpeRanks)
    ELSE LET line == lines[i]
         IN  IF line = <<>> THEN bpeLoopFS(lines, i + 1, bpeRanks)
             ELSE LET parts == Split(line, " ")
                      token == DecodeString(parts[1])
                  IN  IF ~token.ok THEN Err("base64.CorruptInputError")
                      ELSE IF Len(parts) < 2 THEN Panic
                      ELSE LET rank == Atoi(parts[2])
                           IN  IF ~rank.ok THEN Err("strconv.NumError")
                               ELSE bpeLoopFS(lines, i + 1,
                                        (token.bytes :> rank.n) @@ bpeRanks)

\* LoadTiktokenBpeFromFS once the embedded file has been read.
parseBpeFS(contents) == bpeLoopFS(Split(contents, "\n"), 1, EmptyRanks)

(***************************************************************************)
(* Paths.  A path is a sequence of strings; the empty sequence is the      *)
(* empty string.  filepath.Join drops empty elements and joins the rest.   *)
(***************************************************************************)
FilepathJoin(a, b) == a \o b

TempDir == << "/tmp" >>

\* The values the embedding program gives the two environment variables.
DirA == << "/cacheA" >>
DirB == << "/cacheB" >>

EnvNames == {"TIKTOKEN_CACHE_DIR", "DATA_GYM_CACHE_DIR"}

EnvValues(k) ==
    {[set |-> FALSE, val |-> <<>>], [set |-> TRUE, val |-> <<>>],
     [set |-> TRUE, val |-> IF k = "TIKTOKEN_CACHE_DIR" THEN DirA ELSE DirB]}

\* The identifiers loaded: a local path and a URL.
LocalBlob == << "/data/", "enc.tiktoken" >>
URLBlob   == << "https://", "host/enc.tiktoken" >>
Blobs     == {LocalBlob, URLBlob}

\* fmt.Sprintf("%x", sha1.Sum(blobpath)): the digest of these bytes, one
\* name per identifier (collisions of SHA-1 are outside the model).
Sha1Hex(blobpath) == << "sha1(" >> \o blobpath \o << ")" >>

\* A suffix that is the same in every call.
UUIDStringFixed(n) == "uuid"

\* uuid.New().String() for the n-th UUID drawn: random, never repeated.
UUIDString(n) == "uuid" \o ToString(n)

(***************************************************************************)
(* What the sources hold.  A local file or a 200 response holds a rank     *)
(* table; a server may also answer 404 with an error page.                 *)
(***************************************************************************)
Text1 == << " ","7" >>
NotFoundBody == << "N","F" >>

Nil == "nil"

Prefixes(data) == {SubSeq(data, 1, n) : n \in 0..Len(data)}

\* ReadAll with its error dropped: a short read passes for the whole.
ReadAllErrorDropped(data) ==
    {[bytes |-> part, err |-> Nil] : part \in Prefixes(data)}

\* ioutil.ReadAll: all of data, or the bytes read so far and an error.
ReadAll(data) ==
    {[bytes |-> data, err |-> Nil]}
    \cup {[bytes |-> part, err |-> "read error"] : part \in Prefixes(data) \ {data}}

\* http.Get(blobpath): an error (no response), or a response of any status;
\* a non-2xx response is not an error.
HttpGet(url, served) ==
    {[err |-> "transport error", status |-> 0, body |-> <<>>]}
    \cup {[err |-> Nil, status |-> 200, body |-> d] : d \in served}
    \cup {[err |-> Nil, status |-> 404, body |-> NotFoundBody]}

\* The results readFile(blobpath) may return while the source holds one of
\* the contents in served.
readFile(path, served) ==
    IF ~HasPrefix(path, << "http://" >>) /\ ~HasPrefix(path, << "https://" >>)
    THEN {[bytes |-> <<>>, err |-> "open error"]}
         \cup UNION {ReadAll(d) : d \in served}
    ELSE LET resps == HttpGet(path, served)
         IN  {[bytes |-> <<>>, err |-> r.err] : r \in {x \in resps : x.err # Nil}}
             \cup UNION {ReadAll(r.body) : r \in {x \in resps : x.err = Nil}}

(***************************************************************************)
(* The rank-table texts handed to the parser: up to MaxLines lines of one  *)
(* or two fields.  The fields: nothing, two tokens in base64 ("A", "B"),   *)
(* a byte outside the base64 alphabet, and the numbers 7, 12 and -1.       *)
(***************************************************************************)
Fields ==
    { <<>>, << "Q","Q","=","=" >>, << "Q","g","=","=" >>, << "!" >>,
      << "7" >>, << "1","2" >>, << "-","1" >> }

Lines == Fields \cup {f \o << " " >> \o g : f \in Fields, g \in Fields}

Texts == {Join(ls, "\n") : ls \in UNION {[1..n -> Lines] : n \in 1..MaxLines}}

(***************************************************************************)
(* State.                                                                  *)
(***************************************************************************)
VARIABLES
    env,          \* the process environment: name -> [set, val]
    held,         \* the contents the sources may hold
    embedFS,      \* the embedded file system: path -> contents
    dirs,         \* the directories on disk
    files,        \* the files on disk: path -> contents
    nextUuid,     \* UUIDs drawn so far, plus one
    calls,        \* calls started so far
    setenvs,      \* changes of the environment so far
    pc,           \* each goroutine's position
    blobpath,     \* readFileCached's argument
    cacheDir,     \* readFileCached's cacheDir
    contents,     \* readFileCached's contents
    tmpFilename,  \* readFileCached's tmpFilename
    hit,          \* whether os.Stat(cachePath) succeeded in this call
    fetches,      \* readFile invocations of this call
    dirErr,       \* the error of os.MkdirAll, which line 69 drops
    rfc,          \* what readFileCached returned: [bytes, err]
    ret           \* what the load returned

vars == << env, held, embedFS, dirs, files, nextUuid, calls, setenvs, pc,
           blobpath, cacheDir, contents, tmpFilename, hit, fetches, dirErr,
           rfc, ret >>

diskVars == << dirs, files >>
worldVars == << env, held, embedFS, setenvs >>

Procs == 1..MaxCalls

NoPath == << >>
NoResult == [kind |-> "none"]
NoReturn == [bytes |-> <<>>, err |-> "none"]

\* os.Getenv: the value, empty when the variable is unset.
Getenv(k) == IF env[k].set THEN env[k].val ELSE <<>>

\* The two variables consulted in the other order.
ResolveCacheDirSecondaryFirst ==
    IF Getenv("DATA_GYM_CACHE_DIR") # <<>> THEN Getenv("DATA_GYM_CACHE_DIR")
    ELSE IF Getenv("TIKTOKEN_CACHE_DIR") # <<>> THEN Getenv("TIKTOKEN_CACHE_DIR")
    ELSE FilepathJoin(TempDir, << "data-gym-cache" >>)

\* Lines 43-50 of readFileCached.
ResolveCacheDir ==
    IF Getenv("TIKTOKEN_CACHE_DIR") # <<>> THEN Getenv("TIKTOKEN_CACHE_DIR")
    ELSE IF Getenv("DATA_GYM_CACHE_DIR") # <<>> THEN Getenv("DATA_GYM_CACHE_DIR")
    ELSE FilepathJoin(TempDir, << "data-gym-cache" >>)

cacheKey(p) == Sha1Hex(blobpath[p])

cachePath(p) == FilepathJoin(cacheDir[p], cacheKey(p))

\* os.Stat(path) returns no error.
Exists(path) == path \in DOMAIN files

\* The embedded paths a caller asks for: one present, one missing.
EmbedPath == << "bpe" >>
EmbedPaths == {EmbedPath, << "missing" >>}

\* Every setting of the two variables: unset, empty, a directory.
EnvConfigs == {e \in [EnvNames -> [set : BOOLEAN, val : {<<>>, DirA, DirB}]] :
                 \A k \in EnvNames : e[k] \in EnvValues(k)}

Unset == [set |-> FALSE, val |-> <<>>]

\* No goroutine has called anything yet.
Idle ==
    /\ nextUuid = 1
    /\ setenvs = 0
    /\ pc = [p \in Procs |-> "idle"]
    /\ blobpath = [p \in Procs |-> NoPath]
    /\ cacheDir = [p \in Procs |-> NoPath]
    /\ contents = [p \in Procs |-> <<>>]
    /\ tmpFilename = [p \in Procs |-> NoPath]
    /\ hit = [p \in Procs |-> FALSE]
    /\ fetches = [p \in Procs |-> 0]
    /\ dirErr = [p \in Procs |-> Nil]
    /\ rfc = [p \in Procs |-> NoReturn]
    /\ ret = [p \in Procs |-> NoResult]

\* The disk holds no cache directory.
EmptyDisk ==
    /\ held = {Text1}
    /\ embedFS = (EmbedPath :> Text1)
    /\ dirs = {}
    /\ files = << >>
    /\ calls = 0

\* A program started with neither variable set.
Init == env = [k \in EnvNames |-> Unset] /\ EmptyDisk /\ Idle

\* A program started with any setting of the variables.
SeqInit == env \in EnvConfigs /\ EmptyDisk /\ Idle

\* An unrecovered panic in any goroutine ends the program.
Running == \A q \in Procs : pc[q] # "panicked"

(***************************************************************************)
(* readFileCached, one action per step.                                    *)
(***************************************************************************)
\* The p-th call starts: loadTiktokenBpe(b), which calls readFileCached(b).
\* Calls are numbered in the order they start; p names the call, the
\* goroutine running it and readFileCached's locals in it.
Call(p, b) ==
    /\ Running
    /\ pc[p] = "idle"
    /\ p = calls + 1
    /\ calls' = calls + 1
    /\ blobpath' = [blobpath EXCEPT ![p] = b]
    /\ cacheDir' = [cacheDir EXCEPT ![p] = NoPath]
    /\ rfc' = [rfc EXCEPT ![p] = NoReturn]
    /\ ret' = [ret EXCEPT ![p] = NoResult]
    /\ pc' = [pc EXCEPT ![p] = "resolve"]
    /\ UNCHANGED << worldVars, diskVars, nextUuid, contents, tmpFilename, hit,
                    fetches, dirErr >>

\* Lines 52-55: an empty cacheDir disables caching.
AfterResolve(dir) == IF dir = <<>> THEN "read" ELSE "stat"

\* Lines 43-55: the cache directory is read from the environment.
Resolve(p) ==
    /\ Running
    /\ pc[p] = "resolve"
    /\ cacheDir' = [cacheDir EXCEPT ![p] = ResolveCacheDir]
    /\ pc' = [pc EXCEPT ![p] = AfterResolve(ResolveCacheDir)]
    /\ UNCHANGED << worldVars, diskVars, nextUuid, calls, blobpath, contents,
                    tmpFilename, hit, fetches, rfc, ret,
                    dirErr >>

\* The hit path without its return: the call goes on to fetch.
AfterStatFallThrough(exists) == "read"

\* Lines 60-62: a file at cachePath is read and returned, else the miss path.
AfterStat(exists) == IF exists THEN "readhit" ELSE "read"

\* Line 60: os.Stat(cachePath).
Stat(p) ==
    /\ Running
    /\ pc[p] = "stat"
    /\ hit' = [hit EXCEPT ![p] = Exists(cachePath(p))]
    /\ pc' = [pc EXCEPT ![p] = AfterStat(Exists(cachePath(p)))]
    /\ UNCHANGED << worldVars, diskVars, nextUuid, calls, blobpath, cacheDir,
                    contents, tmpFilename, fetches, rfc, ret,
                    dirErr >>

\* Line 61: ioutil.ReadFile(cachePath) on the hit path.
ReadHit(p) ==
    /\ Running
    /\ pc[p] = "readhit"
    /\ rfc' = [rfc EXCEPT ![p] =
                 IF Exists(cachePath(p))
                 THEN [bytes |-> files[cachePath(p)], err |-> Nil]
                 ELSE [bytes |-> <<>>, err |-> "open error"]]
    /\ pc' = [pc EXCEPT ![p] = "parse"]
    /\ UNCHANGED << worldVars, diskVars, nextUuid, calls, blobpath, cacheDir,
                    contents, tmpFilename, hit, fetches, ret,
                    dirErr >>

\* The miss path returning readFile's bytes along with its error.
ReadFileBytesWithError(p) ==
    /\ Running
    /\ pc[p] = "read"
    /\ fetches' = [fetches EXCEPT ![p] = @ + 1]
    /\ \E r \in readFile(blobpath[p], held) :
         IF cacheDir[p] = <<>> \/ r.err # Nil
         THEN /\ rfc' = [rfc EXCEPT ![p] = r]
              /\ pc' = [pc EXCEPT ![p] = "parse"]
              /\ UNCHANGED contents
         ELSE /\ contents' = [contents EXCEPT ![p] = r.bytes]
              /\ pc' = [pc EXCEPT ![p] = "mkdir"]
              /\ UNCHANGED rfc
    /\ UNCHANGED << worldVars, diskVars, nextUuid, calls, blobpath, cacheDir,
                    tmpFilename, hit, ret,
                    dirErr >>

\* Lines 54 and 64-67: readFile(blobpath), directly when caching is disabled
\* (its result is returned as it is), else on a miss (an error returns nil).
ReadFile(p) ==
    /\ Running
    /\ pc[p] = "read"
    /\ fetches' = [fetches EXCEPT ![p] = @ + 1]
    /\ \E r \in readFile(blobpath[p], held) :
         IF cacheDir[p] = <<>>
         THEN /\ rfc' = [rfc EXCEPT ![p] = r]
              /\ pc' = [pc EXCEPT ![p] = "parse"]
              /\ UNCHANGED contents
         ELSE IF r.err # Nil
         THEN /\ rfc' = [rfc EXCEPT ![p] = [bytes |-> <<>>, err |-> r.err]]
              /\ pc' = [pc EXCEPT ![p] = "parse"]
              /\ UNCHANGED contents
         ELSE /\ contents' = [contents EXCEPT ![p] = r.bytes]
              /\ pc' = [pc EXCEPT ![p] = "mkdir"]
              /\ UNCHANGED rfc
    /\ UNCHANGED << worldVars, diskVars, nextUuid, calls, blobpath, cacheDir,
                    tmpFilename, hit, ret,
                    dirErr >>

\* No temporary name: the bytes are written to cachePath itself.
TmpNameInPlace(path, uuid) == path

\* Line 70: the temporary file's name.
TmpName(path, uuid) == path \o << ".", uuid, ".tmp" >>

\* Lines 69-70: os.MkdirAll(cacheDir), its error dropped, then the temporary
\* name.  MkdirAll of an existing directory does nothing; else it creates
\* the directory or fails.
MkdirAll(p) ==
    /\ Running
    /\ pc[p] = "mkdir"
    /\ \/ dirs' = dirs \cup {cacheDir[p]} /\ UNCHANGED dirErr
       \/ /\ cacheDir[p] \notin dirs
          /\ dirs' = dirs
          /\ dirErr' = [dirErr EXCEPT ![p] = "mkdir error"]
    /\ tmpFilename' = [tmpFilename EXCEPT ![p] =
                         TmpName(cachePath(p), UUIDString(nextUuid))]
    /\ nextUuid' = nextUuid + 1
    /\ pc' = [pc EXCEPT ![p] = "create"]
    /\ UNCHANGED << worldVars, files, calls, blobpath, cacheDir, contents,
                    hit, fetches, rfc, ret >>

\* Line 71, ioutil.WriteFile opening tmpFilename (create, truncate): it fails
\* when the directory is missing and may fail otherwise.
Create(p) ==
    /\ Running
    /\ pc[p] = "create"
    /\ \/ /\ cacheDir[p] \in dirs
          /\ files' = (tmpFilename[p] :> <<>>) @@ files
          /\ pc' = [pc EXCEPT ![p] = IF contents[p] = <<>> THEN "rename" ELSE "write"]
          /\ UNCHANGED rfc
       \/ /\ rfc' = [rfc EXCEPT ![p] = [bytes |-> <<>>, err |-> "write error"]]
          /\ pc' = [pc EXCEPT ![p] = "parse"]
          /\ UNCHANGED files
    /\ UNCHANGED << worldVars, dirs, nextUuid, calls, blobpath, cacheDir,
                    contents, tmpFilename, hit, fetches, ret,
                    dirErr >>

\* Line 71, ioutil.WriteFile writing: the file grows by some bytes of
\* contents; the write is complete when all of them are in the file.
WriteChunk(p) ==
    /\ Running
    /\ pc[p] = "write"
    /\ \E n \in (Len(files[tmpFilename[p]]) + 1)..Len(contents[p]) :
         /\ files' = [files EXCEPT ![tmpFilename[p]] = SubSeq(contents[p], 1, n)]
         /\ pc' = [pc EXCEPT ![p] = IF n = Len(contents[p]) THEN "rename" ELSE "write"]
    /\ UNCHANGED << worldVars, dirs, nextUuid, calls, blobpath, cacheDir,
                    contents, tmpFilename, hit, fetches, rfc, ret,
                    dirErr >>

\* Lines 71-73: the write fails part-way; readFileCached returns the error.
WriteFail(p) ==
    /\ Running
    /\ pc[p] = "write"
    /\ rfc' = [rfc EXCEPT ![p] = [bytes |-> <<>>, err |-> "write error"]]
    /\ pc' = [pc EXCEPT ![p] = "parse"]
    /\ UNCHANGED << worldVars, diskVars, nextUuid, calls, blobpath, cacheDir,
                    contents, tmpFilename, hit, fetches, ret,
                    dirErr >>

\* The temporary file removed and nothing put at the final path.
RenamedAway(fs, old, new) == [q \in DOMAIN fs \ {old} |-> fs[q]]

\* os.Rename(old, new) succeeding: new holds old's contents, old is gone.
Renamed(fs, old, new) ==
    [q \in (DOMAIN fs \ {old}) \cup {new} |-> IF q = new THEN fs[old] ELSE fs[q]]

\* Line 74: os.Rename(tmpFilename, cachePath); contents and its error return.
Rename(p) ==
    /\ Running
    /\ pc[p] = "rename"
    /\ \/ /\ files' = Renamed(files, tmpFilename[p], cachePath(p))
          /\ rfc' = [rfc EXCEPT ![p] = [bytes |-> contents[p], err |-> Nil]]
       \/ /\ rfc' = [rfc EXCEPT ![p] = [bytes |-> contents[p], err |-> "rename error"]]
          /\ UNCHANGED files
    /\ pc' = [pc EXCEPT ![p] = "parse"]
    /\ UNCHANGED << worldVars, dirs, nextUuid, calls, blobpath, cacheDir,
                    contents, tmpFilename, hit, fetches, ret,
                    dirErr >>

\* Lines 78-99: what loadTiktokenBpe returns for readFileCached's result r.
loadTiktokenBpe(r) == IF r.err # Nil THEN Err(r.err) ELSE parseBpe(r.bytes)

\* Lines 77-100: loadTiktokenBpe returns to its caller (or panics); the
\* locals of readFileCached are gone.
LoadReturn(p) ==
    /\ Running
    /\ pc[p] = "parse"
    /\ ret' = [ret EXCEPT ![p] = loadTiktokenBpe(rfc[p])]
    /\ pc' = [pc EXCEPT ![p] =
                IF loadTiktokenBpe(rfc[p]) = Panic THEN "panicked" ELSE "idle"]
    /\ contents' = [contents EXCEPT ![p] = <<>>]
    /\ tmpFilename' = [tmpFilename EXCEPT ![p] = NoPath]
    /\ hit' = [hit EXCEPT ![p] = FALSE]
    /\ fetches' = [fetches EXCEPT ![p] = 0]
    /\ dirErr' = [dirErr EXCEPT ![p] = Nil]
    /\ UNCHANGED << worldVars, diskVars, nextUuid, calls, blobpath, cacheDir,
                    rfc >>

\* fs.Open's error dropped: a missing path yields an empty table.
LoadTiktokenBpeFromFSOpenErrorDropped(fs, path) ==
    IF path \notin DOMAIN fs THEN Ok(EmptyRanks)
    ELSE parseBpeFS(fs[path])

\* Lines 108-137: what LoadTiktokenBpeFromFS(fs, path) returns.
LoadTiktokenBpeFromFS(fs, path) ==
    IF path \notin DOMAIN fs THEN Err("file does not exist")
    ELSE parseBpeFS(fs[path])

\* A goroutine calls LoadTiktokenBpeFromFS(embedFS, path) and it returns.
LoadFromFS(p, path) ==
    /\ Running
    /\ pc[p] = "idle"
    /\ ret' = [ret EXCEPT ![p] = LoadTiktokenBpeFromFS(embedFS, path)]
    /\ pc' = [pc EXCEPT ![p] =
                IF LoadTiktokenBpeFromFS(embedFS, path) = Panic
                THEN "panicked" ELSE "idle"]
    /\ UNCHANGED << worldVars, diskVars, nextUuid, calls, blobpath, cacheDir,
                    contents, tmpFilename, hit, fetches, rfc,
                    dirErr >>

\* The embedding program changes an environment variable (os.Setenv,
\* os.Unsetenv).  Only lines 44-47 read the environment, so a change is
\* taken when a call is about to read it: a change made earlier is seen by
\* no step before that one.
Setenv(k, v) ==
    /\ Running
    /\ setenvs < MaxSetenv
    /\ \E p \in Procs : pc[p] = "resolve"
    /\ env[k] # v
    /\ env' = [env EXCEPT ![k] = v]
    /\ setenvs' = setenvs + 1
    /\ UNCHANGED << held, embedFS, diskVars, nextUuid, calls, pc, blobpath,
                    cacheDir, contents, tmpFilename, hit, fetches, rfc, ret,
                    dirErr >>

\* One step of a cache-backed load on goroutine p.
Step(p) ==
    \/ \E b \in Blobs : Call(p, b)
    \/ Resolve(p)
    \/ Stat(p)
    \/ ReadHit(p)
    \/ ReadFile(p)
    \/ MkdirAll(p)
    \/ Create(p)
    \/ WriteChunk(p)
    \/ WriteFail(p)
    \/ Rename(p)
    \/ LoadReturn(p)

\* Loads that may overlap in any way, under a fixed environment.
Next == \E p \in Procs : Step(p)

Spec == Init /\ [][Next]_vars

\* Successive loads (a call starts when the calls before it have returned),
\* the environment changing between them.
SeqNext ==
    \/ \E p \in Procs : (\A q \in Procs \ {p} : pc[q] = "idle") /\ Step(p)
    \/ \E k \in EnvNames : \E v \in EnvValues(k) : Setenv(k, v)

SeqSpec == SeqInit /\ [][SeqNext]_vars

(***************************************************************************)
(* Successive loads while the sources change: what a source held at the    *)
(* start is replaced by other contents, or the source becomes unreadable   *)
(* (it holds nothing: a local file is gone, a server answers 404).         *)
(***************************************************************************)
Text2 == << " ","8" >>

SourceChanges ==
    /\ Running
    /\ held = {Text1}
    /\ \E h \in {{}, {Text2}} : held' = h
    /\ UNCHANGED << env, embedFS, setenvs, diskVars, nextUuid, calls, pc,
                    blobpath, cacheDir, contents, tmpFilename, hit, fetches,
                    rfc, ret, dirErr >>

StaleNext ==
    \/ \E p \in Procs : (\A q \in Procs \ {p} : pc[q] = "idle") /\ Step(p)
    \/ SourceChanges

StaleSpec == Init /\ [][StaleNext]_vars

(***************************************************************************)
(* The parser on every text of Texts: the text is in the cache under       *)
(* LocalBlob's key and in the embedded file system; goroutine 1 loads it   *)
(* with loadTiktokenBpe, goroutine 2 with LoadTiktokenBpeFromFS (one step, *)
(* taken before or after goroutine 1's call).                              *)
(***************************************************************************)
ParseInit ==
    /\ env = [k \in EnvNames |-> Unset]
    /\ \E text \in Texts :
         /\ held = {text}
         /\ embedFS = (EmbedPath :> text)
         /\ files = (FilepathJoin(ResolveCacheDir, Sha1Hex(LocalBlob)) :> text)
    /\ dirs = {ResolveCacheDir}
    /\ calls = 0
    /\ Idle

ParseNext ==
    \/ ret[1] = NoResult /\ Call(1, LocalBlob)
    \/ Resolve(1)
    \/ Stat(1)
    \/ ReadHit(1)
    \/ LoadReturn(1)
    \/ pc[1] = "idle" /\ \E path \in EmbedPaths : LoadFromFS(2, path)

ParseSpec == ParseInit /\ [][ParseNext]_vars
(***************************************************************************)
(* Vocabulary of the properties.                                           *)
(***************************************************************************)
\* The directories a call may resolve.
CacheDirs == {DirA, DirB, FilepathJoin(TempDir, << "data-gym-cache" >>)}

\* The final cache path of identifier b in directory d.
FinalPath(d, b) == FilepathJoin(d, Sha1Hex(b))

FinalPaths == {FinalPath(d, b) : d \in CacheDirs, b \in Blobs}

IsURL(b) == HasPrefix(b, << "http://" >>) \/ HasPrefix(b, << "https://" >>)

\* The complete bodies a Source Reader call for b can deliver.
Payloads(b) == IF IsURL(b) THEN held \cup {NotFoundBody} ELSE held

IsTemp(path) == Len(path) > 0 /\ path[Len(path)] = ".tmp"

AllReturned == \A p \in Procs : pc[p] = "idle"

\* readFileCached has returned in call p, without error.
Succeeded(p) == pc[p] \in {"parse", "idle"} /\ rfc[p].err = Nil

SameKey(p, q) == blobpath[p] = blobpath[q] /\ cacheDir[p] = cacheDir[q]

(***************************************************************************)
(* C1: for any number of readFileCached calls that overlap in any way,     *)
(* from an empty cache directory, each call that returns without error     *)
(* returns a complete body: the one its own readFile call delivered, or    *)
(* the one of a cache entry already renamed into place.  Once all calls    *)
(* have returned, a file at a final cache path is the complete body that   *)
(* one of the successful calls for that key returned, never a truncated    *)
(* or mixed file.                                                          *)
(***************************************************************************)
C1_ConcurrentCallsComplete ==
    /\ \A p \in Procs :
         (pc[p] = "parse" /\ rfc[p].err = Nil) =>
            /\ rfc[p].bytes \in Payloads(blobpath[p])
            /\ ~hit[p] => rfc[p].bytes = contents[p]
    /\ AllReturned =>
         \A d \in CacheDirs, b \in Blobs :
            Exists(FinalPath(d, b)) =>
               /\ files[FinalPath(d, b)] \in Payloads(b)
               /\ \E q \in Procs :
                     /\ Succeeded(q)
                     /\ blobpath[q] = b /\ cacheDir[q] = d
                     /\ rfc[q].bytes = files[FinalPath(d, b)]

\* Two calls for one key both fetched and renamed, with different bodies,
\* and all calls have returned.
C1_Witness ==
    /\ AllReturned
    /\ \E p, q \in Procs :
         /\ p # q /\ SameKey(p, q)
         /\ Succeeded(p) /\ Succeeded(q)
         /\ rfc[p].bytes # rfc[q].bytes
         /\ Exists(cachePath(p))

(***************************************************************************)
(* C2: in every reachable state a file at a final cache path holds a       *)
(* complete body of a Source Reader call for its identifier; a file that   *)
(* does not is under a temporary name; a call on the hit path returns a    *)
(* complete body, without error.                                           *)
(***************************************************************************)
C2_FinalFilesComplete ==
    /\ \A path \in DOMAIN files :
         \/ IsTemp(path)
         \/ \E d \in CacheDirs, b \in Blobs :
               path = FinalPath(d, b) /\ files[path] \in Payloads(b)
    /\ \A p \in Procs :
         (hit[p] /\ pc[p] = "parse") =>
            rfc[p].err = Nil /\ rfc[p].bytes \in Payloads(blobpath[p])

\* A final cache file exists while another writer's temporary file for the
\* same key is partly written.
C2_Witness ==
    \E p \in Procs :
       /\ pc[p] = "write"
       /\ Exists(cachePath(p))
       /\ files[tmpFilename[p]] # <<>>
       /\ files[tmpFilename[p]] # contents[p]

(***************************************************************************)
(* C3: of two successive calls (no call overlaps another) for the same     *)
(* identifier and cache directory that both return without error, the      *)
(* second returns the bytes of the first; after a call has returned        *)
(* without error a file exists at its cache path and holds the bytes it    *)
(* returned.                                                               *)
(***************************************************************************)
C3_SuccessiveCallsAgree ==
    \A p \in Procs :
       Succeeded(p) =>
          /\ Exists(cachePath(p))
          /\ files[cachePath(p)] = rfc[p].bytes
          /\ \A q \in Procs :
                (q = p + 1 /\ Succeeded(q) /\ SameKey(p, q)) =>
                   rfc[q].bytes = rfc[p].bytes

\* Two successive calls for one key have both returned without error.
C3_Witness ==
    /\ AllReturned
    /\ \E p, q \in Procs :
         q = p + 1 /\ SameKey(p, q) /\ Succeeded(p) /\ Succeeded(q)

(***************************************************************************)
(* C4: a call whose os.Stat found the cache file never invokes readFile    *)
(* and has no temporary file, and no step of it creates, writes or renames *)
(* a file or creates a directory.                                          *)
(***************************************************************************)
C4_HitNeverFetches ==
    /\ [](\A p \in Procs : hit[p] => fetches[p] = 0 /\ tmpFilename[p] = NoPath)
    /\ [][\A p \in Procs :
            (hit[p] /\ pc'[p] # pc[p]) => UNCHANGED << files, dirs >>]_vars

\* A call has returned the cache file's bytes on the hit path.
C4_Witness ==
    \E p \in Procs : hit[p] /\ pc[p] = "parse" /\ rfc[p].err = Nil

(***************************************************************************)
(* C5: when the variable that decides the cache directory is set to the    *)
(* empty value, the call resolves the empty directory and goes straight to *)
(* readFile; a call with the empty directory changes nothing on disk.      *)
(***************************************************************************)
SetEmpty == [set |-> TRUE, val |-> <<>>]

\* The first variable that is set, in priority order, is set to "".
ExplicitlyEmpty ==
    \/ env["TIKTOKEN_CACHE_DIR"] = SetEmpty
    \/ env["TIKTOKEN_CACHE_DIR"] = Unset /\ env["DATA_GYM_CACHE_DIR"] = SetEmpty

C5_EmptyDisablesCaching ==
    [][\A p \in Procs :
         /\ (pc[p] = "resolve" /\ pc'[p] # "resolve" /\ ExplicitlyEmpty) =>
               cacheDir'[p] = <<>> /\ pc'[p] = "read"
         /\ (cacheDir[p] = <<>> /\ pc[p] \notin {"idle", "resolve"}
               /\ pc'[p] # pc[p]) => UNCHANGED << files, dirs >>]_vars

(***************************************************************************)
(* C6: for a URL, the body of a response with a non-success status is      *)
(* never taken as contents, returned to the caller or written to a file.   *)
(***************************************************************************)
ErrorBodies ==
    {r.body : r \in {x \in HttpGet(URLBlob, held) :
                        x.err = Nil /\ x.status \notin 200..299}}

C6_ErrorBodyNeverServed ==
    /\ \A p \in Procs :
         IsURL(blobpath[p]) =>
            contents[p] \notin ErrorBodies /\ rfc[p].bytes \notin ErrorBodies
    /\ \A path \in DOMAIN files : files[path] \notin ErrorBodies

(***************************************************************************)
(* C7: on a miss whose readFile succeeded, when the directory creation,    *)
(* the temporary file's write or the rename fails, loadTiktokenBpe returns *)
(* an error and no rank table.                                             *)
(***************************************************************************)
C7_CacheWriteFailureFailsLoad ==
    \A p \in Procs :
       (/\ pc[p] = "parse"
        /\ tmpFilename[p] # NoPath
        /\ \/ dirErr[p] # Nil
           \/ rfc[p].err \in {"write error", "rename error"})
       => loadTiktokenBpe(rfc[p]).kind = "err"

(***************************************************************************)
(* The text the parser is given in ParseSpec, and its non-empty lines.     *)
(***************************************************************************)
TextIn == CHOOSE t \in held : TRUE

NonEmptyLines(t) ==
    LET ls == Split(t, "\n")
    IN  {ls[i] : i \in {j \in 1..Len(ls) : ls[j] # <<>>}}

\* A load has returned (or panicked) after parsing the text.
Parsed(p) == ret[p] # NoResult /\ ret[p] # Err("file does not exist")

(***************************************************************************)
(* C8: when some non-empty line has a first field that is not standard     *)
(* base64, or a second field that is not a decimal integer, the load       *)
(* returns an error and no rank table.                                     *)
(***************************************************************************)
HasBadField(t) ==
    \E line \in NonEmptyLines(t) :
       LET parts == Split(line, " ")
       IN  \/ ~DecodeString(parts[1]).ok
           \/ Len(parts) >= 2 /\ ~Atoi(parts[2]).ok

C8_BadFieldIsError ==
    \A p \in Procs :
       (Parsed(p) /\ HasBadField(TextIn)) => ret[p].kind = "err"

(***************************************************************************)
(* C9: the parser ends by returning a rank table or an error, never by a   *)
(* panic; a text with a non-empty line of fewer than two space-separated   *)
(* fields yields an error.                                                 *)
(***************************************************************************)
HasShortLine(t) ==
    \E line \in NonEmptyLines(t) : Len(Split(line, " ")) < 2

C9_ShortLineIsError ==
    \A p \in Procs :
       /\ pc[p] # "panicked"
       /\ ret[p].kind # "panic"
       /\ (Parsed(p) /\ HasShortLine(TextIn)) => ret[p].kind = "err"

(***************************************************************************)
(* C10: every rank of a rank table returned without error is a             *)
(* non-negative integer.                                                   *)
(***************************************************************************)
C10_RanksNonNegative ==
    \A p \in Procs :
       ret[p].kind = "ok" =>
          \A token \in DOMAIN ret[p].bpeRanks : ret[p].bpeRanks[token] >= 0

(***************************************************************************)
(* Well-formed rank-table texts, stated without the parser: the fields a   *)
(* well-formed line is made of and what each stands for.                   *)
(***************************************************************************)
\* The base64 fields of Fields and the bytes they encode ("", "A", "B").
ExpectedToken(field) ==
    CASE field = <<>> -> <<>>
      [] field = << "Q","Q","=","=" >> -> << 65 >>
      [] field = << "Q","g","=","=" >> -> << 66 >>

TokenFields == { <<>>, << "Q","Q","=","=" >>, << "Q","g","=","=" >> }

\* The decimal fields of Fields and their values.
ExpectedRank(field) ==
    CASE field = << "7" >> -> 7
      [] field = << "1","2" >> -> 12

RankFields == { << "7" >>, << "1","2" >> }

FirstField(line) == SubSeq(line, 1, IndexOf(line, " ") - 1)

SecondField(line) == SubSeq(line, IndexOf(line, " ") + 1, Len(line))

WellFormedLine(line) ==
    /\ IndexOf(line, " ") > 0
    /\ FirstField(line) \in TokenFields
    /\ SecondField(line) \in RankFields

WellFormed(t) == \A line \in NonEmptyLines(t) : WellFormedLine(line)

HasEmptyLine(t) == \E i \in 1..Len(Split(t, "\n")) : Split(t, "\n")[i] = <<>>

(***************************************************************************)
(* C11: for a well-formed text both loads return a rank table; its keys    *)
(* are exactly the decoded tokens of the non-empty lines, each value is    *)
(* the integer of a line carrying that token, and empty lines add no entry *)
(* and cause no error.                                                     *)
(***************************************************************************)
C11_WellFormedTable ==
    \A p \in Procs :
       (Parsed(p) /\ WellFormed(TextIn)) =>
          /\ ret[p].kind = "ok"
          /\ DOMAIN ret[p].bpeRanks =
                {ExpectedToken(FirstField(l)) : l \in NonEmptyLines(TextIn)}
          /\ \A token \in DOMAIN ret[p].bpeRanks :
                \E l \in NonEmptyLines(TextIn) :
                   /\ ExpectedToken(FirstField(l)) = token
                   /\ ExpectedRank(SecondField(l)) = ret[p].bpeRanks[token]

\* loadTiktokenBpe has returned the table of a well-formed text that has an
\* empty line and an entry.
C11_Witness ==
    /\ ret[1].kind = "ok"
    /\ WellFormed(TextIn)
    /\ HasEmptyLine(TextIn)
    /\ << 66 >> \in DOMAIN ret[1].bpeRanks

(***************************************************************************)
(* C12: when a token is carried by several lines of a well-formed text,    *)
(* the returned table maps it to the rank of the last of these lines.      *)
(***************************************************************************)
TextLines == Split(TextIn, "\n")

\* The indices of the lines that carry token.
Carrying(token) ==
    {i \in 1..Len(TextLines) :
        /\ TextLines[i] # <<>>
        /\ ExpectedToken(FirstField(TextLines[i])) = token}

LastCarrying(token) ==
    CHOOSE i \in Carrying(token) : \A j \in Carrying(token) : j <= i

C12_LastLineWins ==
    \A p \in Procs :
       (Parsed(p) /\ WellFormed(TextIn)) =>
          /\ ret[p].kind = "ok"
          /\ \A token \in DOMAIN ret[p].bpeRanks :
                ret[p].bpeRanks[token] =
                   ExpectedRank(SecondField(TextLines[LastCarrying(token)]))

\* loadTiktokenBpe has returned the table of a well-formed text in which two
\* lines carry the same token with different ranks.
C12_Witness ==
    /\ ret[1].kind = "ok"
    /\ WellFormed(TextIn)
    /\ \E token \in DOMAIN ret[1].bpeRanks :
          \E i, j \in Carrying(token) :
             /\ i < j
             /\ SecondField(TextLines[i]) # SecondField(TextLines[j])

(***************************************************************************)
(* C13: for every content B, loadTiktokenBpe on an identifier whose cached *)
(* bytes are B and LoadTiktokenBpeFromFS on an embedded path whose bytes   *)
(* are B both return an error, or both return the same rank table.         *)
(***************************************************************************)
\* What each entry point does with the text.
ViaCache == loadTiktokenBpe([bytes |-> TextIn, err |-> Nil])

ViaFS == LoadTiktokenBpeFromFS(embedFS, EmbedPath)

C13_EntryPointsAgree ==
    \A p \in Procs :
       Parsed(p) =>
          /\ ret[p] \in {ViaCache, ViaFS}
          /\ \/ ViaCache.kind = "err" /\ ViaFS.kind = "err"
             \/ ViaCache.kind = "ok" /\ ViaFS = ViaCache

(***************************************************************************)
(* C14: a LoadTiktokenBpeFromFS call, for a present or a missing path,     *)
(* leaves the cache directory and its files unchanged, makes no cache      *)
(* lookup and no readFile call, and for a missing path returns an error    *)
(* and no rank table.                                                      *)
(***************************************************************************)
C14_FromFSBypassesCache ==
    [][/\ ret'[2] # ret[2] =>
            UNCHANGED << files, dirs, hit, fetches, contents, tmpFilename,
                         nextUuid, calls, rfc >>
       /\ \A path \in EmbedPaths :
            (LoadFromFS(2, path) /\ path \notin DOMAIN embedFS) =>
               ret'[2].kind = "err"]_vars

\* LoadTiktokenBpeFromFS has returned for a missing path while the cache
\* holds an entry.
C14_Witness ==
    /\ ret[2] = Err("file does not exist")
    /\ DOMAIN files # {}

(***************************************************************************)
(* C15: a call resolves its cache directory when it starts, from the       *)
(* environment as it is then: TIKTOKEN_CACHE_DIR when set (to a non-empty  *)
(* value), else DATA_GYM_CACHE_DIR when set (to a non-empty value), else   *)
(* the data-gym-cache folder of the temp directory.  The call looks up and *)
(* populates that directory, so two calls with the environment changed in  *)
(* between use different directories.                                      *)
(***************************************************************************)
IsSet(k) == env[k].set /\ env[k].val # <<>>

PriorityDir ==
    IF IsSet("TIKTOKEN_CACHE_DIR") THEN env["TIKTOKEN_CACHE_DIR"].val
    ELSE IF IsSet("DATA_GYM_CACHE_DIR") THEN env["DATA_GYM_CACHE_DIR"].val
    ELSE << "/tmp", "data-gym-cache" >>

C16_NoStalenessCheck ==
    /\ [][/\ \A path \in FinalPaths :
               Exists(path) => path \in DOMAIN files' /\ files'[path] = files[path]
          /\ \A p \in Procs :
               (pc[p] = "stat" /\ pc'[p] # "stat" /\ Exists(cachePath(p))) =>
                  pc'[p] = "readhit"]_vars
    /\ [](\A p \in Procs :
            pc[p] = "readhit" \/ (pc[p] = "parse" /\ hit[p]) =>
               /\ Exists(cachePath(p))
               /\ fetches[p] = 0
               /\ pc[p] = "parse" =>
                     rfc[p] = [bytes |-> files[cachePath(p)], err |-> Nil])

\* A call returned the entry written from what the source held at first,
\* after the source changed or became unreadable.
C16_Witness ==
    \E p \in Procs :
       /\ hit[p] /\ pc[p] = "parse"
       /\ held # {Text1}
       /\ rfc[p] = [bytes |-> Text1, err |-> Nil]

(***************************************************************************)
(* C17: with calls overlapping in any way, a file at a final cache path    *)
(* exists in every later state, and the only step that changes its         *)
(* contents is the rename onto it of a temporary file that holds all the   *)
(* bytes its writer fetched.                                               *)
(***************************************************************************)
\* Call p renames its fully written temporary file onto path in this step.
RenamesOnto(p, path) ==
    /\ pc[p] = "rename" /\ pc'[p] = "parse"
    /\ cachePath(p) = path
    /\ Exists(tmpFilename[p])
    /\ files[tmpFilename[p]] = contents[p]
    /\ files'[path] = contents[p]
    /\ tmpFilename[p] \notin DOMAIN files'

C17_EntriesOnlyReplaced ==
    [][\A path \in FinalPaths :
         Exists(path) =>
            /\ path \in DOMAIN files'
            /\ files'[path] # files[path] =>
                  \E p \in Procs : RenamesOnto(p, path)]_vars

\* The entry one call wrote has been replaced by another call's rename.
C17_Witness ==
    \E p, q \in Procs :
       /\ p # q /\ SameKey(p, q)
       /\ Succeeded(p) /\ Succeeded(q)
       /\ rfc[p].bytes # rfc[q].bytes
       /\ pc[p] = "idle" /\ pc[q] = "parse" /\ ~hit[q]
       /\ files[cachePath(q)] = rfc[q].bytes

(***************************************************************************)
(* C18: a temporary file name is the call's final cache path followed by   *)
(* ".", a unique suffix and ".tmp"; it is the final cache path of no       *)
(* identifier; calls that hold temporary names at the same time hold       *)
(* different ones, and a step that writes to a temporary file is a step of *)
(* the one call that holds its name.                                       *)
(***************************************************************************)
C18_TempNamesDistinct ==
    /\ [](\A p \in Procs :
            tmpFilename[p] # NoPath =>
               /\ Len(tmpFilename[p]) = Len(cachePath(p)) + 3
               /\ SubSeq(tmpFilename[p], 1, Len(cachePath(p))) = cachePath(p)
               /\ tmpFilename[p][Len(cachePath(p)) + 1] = "."
               /\ tmpFilename[p][Len(cachePath(p)) + 3] = ".tmp"
               /\ tmpFilename[p] \notin FinalPaths
               /\ \A q \in Procs \ {p} : tmpFilename[q] # tmpFilename[p])
    /\ [][\A path \in DOMAIN files :
            (IsTemp(path) /\ path \in DOMAIN files' /\ files'[path] # files[path]) =>
               \E p \in Procs :
                  /\ tmpFilename[p] = path
                  /\ pc[p] \in {"create", "write"} /\ pc'[p] # "create"
                  /\ \A q \in Procs \ {p} : UNCHANGED pc[q]]_vars

\* Two writers for one key are both part-way through their temporary files.
C18_Witness ==
    \E p, q \in Procs :
       /\ p # q /\ SameKey(p, q)
       /\ pc[p] = "write" /\ pc[q] = "write"
       /\ files[tmpFilename[p]] # <<>> /\ files[tmpFilename[q]] # <<>>

(***************************************************************************)
(* C19: when readFile fails on a miss, readFileCached returns its error    *)
(* and no bytes, and the call has changed nothing on disk: no directory,   *)
(* no temporary file, no entry for the identifier.  The next call for the  *)
(* same identifier and directory is a miss again and calls readFile.       *)
(***************************************************************************)
FetchErrors == {"open error", "read error", "transport error"}

Populating == {"read", "mkdir", "create", "write", "rename", "parse"}

C19_FailedFetchLeavesNoTrace ==
    /\ [](\A p \in Procs :
            (pc[p] = "parse" /\ fetches[p] = 1 /\ rfc[p].err \in FetchErrors) =>
               /\ rfc[p].bytes = <<>>
               /\ tmpFilename[p] = NoPath
               /\ ~Exists(cachePath(p)))
    /\ [][\A p \in Procs :
            (pc[p] \in {"resolve", "stat", "read"} /\ pc'[p] # pc[p]) =>
               UNCHANGED << files, dirs >>]_vars
    /\ [](\A p, q \in Procs :
            (/\ q = p + 1 /\ SameKey(p, q)
             /\ pc[p] = "idle" /\ rfc[p].err \in FetchErrors
             /\ pc[q] \in Populating) =>
               /\ ~hit[q]
               /\ pc[q] # "read" => fetches[q] = 1)

\* A call failed in readFile, and the next call for the same identifier and
\* directory missed, fetched and populated the cache.
C19_Witness ==
    \E p, q \in Procs :
       /\ q = p + 1 /\ SameKey(p, q)
       /\ pc[p] = "idle" /\ rfc[p].err \in FetchErrors
       /\ pc[q] = "parse" /\ rfc[q].err = Nil /\ fetches[q] = 1
       /\ DOMAIN files = {cachePath(q)}

(***************************************************************************)
(* C20: once every call has returned, with success or with a write or      *)
(* rename error, no file with the .tmp suffix is on disk.                  *)
(***************************************************************************)
C20_NoTempFileLeft ==
    AllReturned => \A path \in DOMAIN files : ~IsTemp(path)

=============================================================================
